---- MODULE Spec2Model ----
(***************************************************************************)
(* Model of crates/wasi-experimental-http-wasmtime/src/lib.rs: the four    *)
(* host calls (req, body_read, header_get, close) that a wasm guest uses   *)
(* to issue HTTP requests, the handle table behind them, the bounds-       *)
(* checked access to the guest's linear memory and the host allow-list.    *)
(*                                                                         *)
(* Scaling.  Guest addresses are u32 in the code; here they range over     *)
(* 0..AddrMax (AddrMax stands for u32::MAX), the guest memory has MemSize  *)
(* bytes, and handles range over 0..HandleMax (HandleMax stands for        *)
(* u32::MAX of WasiHandle).  Bytes are 0..255.  URL text is abbreviated:   *)
(* one byte stands for the scheme with its delimiter, one for the host,    *)
(* one for the port and one for each path segment (see Url_parse).         *)
(*                                                                         *)
(* Specifications.  Spec: one guest instance calling the four host calls.  *)
(* SpecAllowed, SpecBridge, SpecReads: is_allowed, one memory access and   *)
(* two consecutive body_read calls, each over all of its inputs.           *)
(* SpecInstances: several guest instances and the Http objects their       *)
(* linkers were given.                                                     *)
(***************************************************************************)
EXTENDS Integers, Sequences, FiniteSets, TLC

\* ------------------------------------------------------------------ bounds
AddrMax == 15
MemSize == 8
HandleMax == 1
MaxBodyLen == 3

\* ------------------------------------------------------- program constants
U32Bytes == 4
U16Bytes == 2

\* ------------------------------------------------------------- error codes
InvalidHandle == 1
MemoryNotFound == 2
MemoryAccessError == 3
BufferTooSmall == 4
HeaderNotFound == 5
UTF8Error == 6
DestinationNotAllowed == 7
InvalidMethod == 8
InvalidEncoding == 9
InvalidUrl == 10
RequestError == 11
RuntimeError == 12
TooManySessions == 13

\* What a host call that unwinds instead of returning stands in the place of
\* its code.
Panic == 255

Handles == 0..HandleMax

\* ------------------------------------------------------------------- bytes
\* The ASCII codes of the bytes the model's strings are made of.
Ascii == [a |-> 97, b |-> 98, A |-> 65, h |-> 104, s |-> 115, m |-> 109,
          slash |-> 47, port |-> 56, colon |-> 58, G |-> 71, K |-> 75,
          k |-> 107, v |-> 118, w |-> 119]
ChA == Ascii.a
ChB == Ascii.b
ChUpperA == Ascii.A
ChH == Ascii.h
ChS == Ascii.s
ChM == Ascii.m
ChSlash == Ascii.slash
ChPort == Ascii.port
ChColon == Ascii.colon
ChG == Ascii.G
ChK == Ascii.K

Min(a, b) == IF a < b THEN a ELSE b

\* u32::to_le_bytes / u16::to_le_bytes: n as k little-endian bytes.
to_le_bytes(n, k) == [i \in 1..k |-> (n \div (256 ^ (i - 1))) % 256]

\* u8::to_ascii_lowercase
ByteLower(b) == IF b >= 65 /\ b <= 90 THEN b + 32 ELSE b

\* str::to_ascii_lowercase
to_ascii_lowercase(s) == [i \in 1..Len(s) |-> ByteLower(s[i])]

\* std::str::from_utf8 succeeds: ASCII bytes and two-byte sequences (the only
\* non-ASCII bytes this model ever stores are lead bytes without continuation).
RECURSIVE Utf8Valid(_)
Utf8Valid(s) ==
    IF Len(s) = 0 THEN TRUE
    ELSE IF s[1] < 128 THEN Utf8Valid(Tail(s))
    ELSE IF s[1] >= 194 /\ s[1] <= 223 /\ Len(s) >= 2 /\ s[2] >= 128 /\ s[2] <= 191
         THEN Utf8Valid(Tail(Tail(s)))
    ELSE FALSE

\* ------------------------------------------------------------------ errors
\* enum HttpError, by the names of its variants.
HttpError ==
    {"InvalidHandle", "MemoryNotFound", "MemoryAccessError", "BufferTooSmall",
     "HeaderNotFound", "UTF8Error", "DestinationNotAllowed", "InvalidMethod",
     "InvalidEncoding", "InvalidUrl", "RequestError", "RuntimeError", "TooManySessions"}

\* impl From<HttpError> for u32
u32_from_collapsed(e) == IF e = "RuntimeError" THEN RequestError ELSE InvalidHandle
u32_from(e) ==
    CASE e = "InvalidHandle" -> InvalidHandle
      [] e = "MemoryNotFound" -> MemoryNotFound
      [] e = "MemoryAccessError" -> MemoryAccessError
      [] e = "BufferTooSmall" -> BufferTooSmall
      [] e = "HeaderNotFound" -> HeaderNotFound
      [] e = "UTF8Error" -> UTF8Error
      [] e = "DestinationNotAllowed" -> DestinationNotAllowed
      [] e = "InvalidMethod" -> InvalidMethod
      [] e = "InvalidEncoding" -> InvalidEncoding
      [] e = "InvalidUrl" -> InvalidUrl
      [] e = "RequestError" -> RequestError
      [] e = "RuntimeError" -> RuntimeError
      [] e = "TooManySessions" -> TooManySessions

\* The closure a host call is linked as: Ok(()) => 0, Err(e) => e.into(); a
\* call that unwinds returns no code (Panic stands in its place).
host_return(result) ==
    IF result = "Ok" THEN 0 ELSE IF result = "panic" THEN Panic ELSE u32_from(result)

\* ----------------------------------------------------------- Memory Bridge
Ok(v) == [ok |-> TRUE, err |-> "none", val |-> v]
Err(e) == [ok |-> FALSE, err |-> e, val |-> <<>>]

\* u32::checked_add: None (here -1) when the sum leaves the address type.
checked_add_wrapping(a, b) == (a + b) % (AddrMax + 1)
checked_add(a, b) == IF a + b > AddrMax THEN -1 ELSE a + b

\* The bytes of m at [offset, offset+len); an index outside m reads as 0 so
\* that an unchecked access is observable instead of undefined.
Bytes(m, offset, len) ==
    [i \in 1..len |-> IF (offset + i - 1) \in DOMAIN m THEN m[offset + i - 1] ELSE 0]

\* The indices an access of len bytes at offset touches.
Range(offset, len) == offset..(offset + len - 1)

\* The result of one access to guest memory: val is the data read (a read)
\* or the memory after the call (a write), idx the indices it touched.
Access(ok, err, val, idx) == [ok |-> ok, err |-> err, val |-> val, idx |-> idx]

\* fn slice_from_memory(memory, offset, len) -> Result<&[u8], HttpError>
slice_from_memory_wrapping(m, offset, len) ==
    IF checked_add_wrapping(offset, len) > MemSize
    THEN Access(FALSE, "BufferTooSmall", <<>>, {})
    ELSE Access(TRUE, "none", Bytes(m, offset, len), Range(offset, len))
slice_from_memory(m, offset, len) ==
    LET required_memory_size == checked_add(offset, len)
    IN  IF required_memory_size = -1 THEN Access(FALSE, "BufferTooSmall", <<>>, {})
        ELSE IF required_memory_size > MemSize
             THEN Access(FALSE, "BufferTooSmall", <<>>, {})
        ELSE Access(TRUE, "none", Bytes(m, offset, len), Range(offset, len))

\* fn string_from_memory(memory, offset, len) -> Result<&str, HttpError>
string_from_memory(m, offset, len) ==
    LET slice == slice_from_memory(m, offset, len)
    IN  IF ~slice.ok THEN slice
        ELSE IF ~Utf8Valid(slice.val) THEN Access(FALSE, "UTF8Error", <<>>, slice.idx)
        ELSE slice

\* The memory m with buffer copied to offset.., as far as m reaches.
Copied(m, offset, buffer) ==
    [i \in DOMAIN m |->
        IF i \in Range(offset, Len(buffer)) THEN buffer[i - offset + 1] ELSE m[i]]

\* wasmtime Memory::write(offset, buffer): all of buffer is copied to
\* [offset, offset+len), or nothing is and MemoryAccessError is returned.
memory_write_partial(m, offset, buffer) ==
    IF offset <= MemSize /\ Len(buffer) <= MemSize - offset
    THEN Access(TRUE, "none", Copied(m, offset, buffer), Range(offset, Len(buffer)))
    ELSE Access(FALSE, "MemoryAccessError", Copied(m, offset, buffer),
                Range(offset, Len(buffer)))
memory_write(m, offset, buffer) ==
    IF offset <= MemSize /\ Len(buffer) <= MemSize - offset
    THEN Access(TRUE, "none", Copied(m, offset, buffer), Range(offset, Len(buffer)))
    ELSE Access(FALSE, "MemoryAccessError", m, {})

\* ----------------------------------------------------------- Access Control
SpecialSchemes == {ChH, ChS}
OpaqueSchemes == {ChM}
HostBytes == {ChA, ChB, ChUpperA}
NoHost == <<>>

\* Url::parse and Url::host_str of the url crate on abbreviated URL text:
\*   <scheme> <host> [<port>] <path>*   for the schemes with an authority
\*                                      (path: printable ASCII),
\*   <scheme> <anything>*               for a scheme without one (mailto:).
\* A text without a scheme, or a scheme with an authority but no host, does
\* not parse.  host is the normalised (lower-cased) host, NoHost when the
\* URL has none.
Url_parse(s) ==
    IF Len(s) = 0 THEN Err("InvalidUrl")
    ELSE IF s[1] \in OpaqueSchemes
         THEN Ok([scheme |-> s[1], host |-> NoHost, port |-> 0, path |-> Tail(s)])
    ELSE IF s[1] \notin SpecialSchemes THEN Err("InvalidUrl")
    ELSE IF Len(s) < 2 \/ s[2] \notin HostBytes THEN Err("InvalidUrl")
    ELSE LET rest == SubSeq(s, 3, Len(s))
             hasPort == Len(rest) > 0 /\ rest[1] = ChPort
             path == IF hasPort THEN Tail(rest) ELSE rest
         IN  IF \A i \in 1..Len(path) : path[i] >= 33 /\ path[i] <= 126
             THEN Ok([scheme |-> s[1], host |-> <<ByteLower(s[2])>>,
                      port |-> IF hasPort THEN ChPort ELSE 0, path |-> path])
             ELSE Err("InvalidUrl")

\* Option<&[String]>
None == [some |-> FALSE, list |-> <<>>]
Some(l) == [some |-> TRUE, list |-> l]

\* fn is_allowed(url, allowed_domains) -> Result<bool, HttpError>
\* val is the boolean; err = "panic" when host_str().unwrap() unwinds.
is_allowed_no_gate(url, allowed_domains) ==
    LET u == Url_parse(url)
    IN  IF ~u.ok \/ u.val.host = NoHost THEN Err("InvalidUrl") ELSE Ok(TRUE)
is_allowed_open_by_default(url, allowed_domains) ==
    LET u == Url_parse(url)
    IN  IF ~u.ok \/ u.val.host = NoHost THEN Err("InvalidUrl")
        ELSE IF ~allowed_domains.some THEN Ok(TRUE)
        ELSE Ok(\E i \in 1..Len(allowed_domains.list) :
                    Url_parse(allowed_domains.list[i]).ok
                    /\ Url_parse(allowed_domains.list[i]).val.host = u.val.host)
is_allowed(url, allowed_domains) ==
    LET u == Url_parse(url)
    IN  IF ~u.ok \/ u.val.host = NoHost THEN Err("InvalidUrl")
        ELSE IF ~allowed_domains.some THEN Ok(FALSE)
        ELSE LET domains == allowed_domains.list
                 allowed == [i \in 1..Len(domains) |-> Url_parse(domains[i])]
             IN  IF \E i \in 1..Len(domains) : ~allowed[i].ok THEN Err("InvalidUrl")
                 ELSE IF \E i \in 1..Len(domains) : allowed[i].val.host = NoHost
                      THEN Err("panic")
                 ELSE Ok(\E i \in 1..Len(domains) : allowed[i].val.host = u.val.host)

\* ------------------------------------------------------------ Handle Table
\* struct Body { bytes, pos } and struct Response { headers, body }
Body(bytes, pos) == [bytes |-> bytes, pos |-> pos]
Response(headers, body) == [headers |-> headers, body |-> body]

\* HashMap::new / insert / remove on the responses table.
EmptyMap == [h \in {} |-> 0]
Insert(map, key, value) ==
    [h \in (DOMAIN map) \cup {key} |-> IF h = key THEN value ELSE map[h]]
Remove(map, key) == [h \in (DOMAIN map) \ {key} |-> map[h]]

\* st.current_handle += 1 on a u32: wraps when the build has no overflow
\* checks, unwinds (-1) when it has them.
handle_increment(cur, checks) ==
    IF cur = HandleMax THEN (IF checks THEN -1 ELSE 0) ELSE cur + 1

\* The probing loop of req: from cur upward to the first handle that is no
\* key of resp.  cursor is st.current_handle when the loop is left.
RECURSIVE probe(_, _, _, _)
probe(resp, cur, initial_handle, checks) ==
    IF cur \notin DOMAIN resp THEN [kind |-> "found", cursor |-> cur]
    ELSE LET next == handle_increment(cur, checks)
         IN  IF next = -1 THEN [kind |-> "panic", cursor |-> cur]
             ELSE IF next = initial_handle THEN [kind |-> "full", cursor |-> next]
             ELSE probe(resp, next, initial_handle, checks)

allocate_first_fit(resp, cur, checks) == [kind |-> "found", cursor |-> cur]
allocate(resp, cur, checks) == probe(resp, cur, cur, checks)

\* ------------------------------------------------------- Request Dispatcher
\* Method::from_str of the http crate: a non-empty token.
IsTchar(b) ==
    /\ b > 32 /\ b < 127
    /\ b \notin {34, 40, 41, 44, 47, 58, 59, 60, 61, 62, 63, 64, 91, 92, 93, 123, 125}
Method_from_str(s) == Len(s) > 0 /\ \A i \in 1..Len(s) : IsTchar(s[i])

\* wasi_experimental_http::string_to_header_map: every line of the block is
\* name:value; the empty block has no lines.
string_to_header_map(s) == Len(s) = 0 \/ \E i \in 1..Len(s) : s[i] = ChColon

\* What the network does with one request.
HeaderValue == <<Ascii.v, Ascii.w>>
NoHeaders == [n \in {} |-> <<>>]
OneHeader == [n \in {<<Ascii.k>>} |-> HeaderValue]
BodyBytes(n) == [i \in 1..n |-> 64 + i]
LongBody == <<65, 66>>
NetOk(headers, bytes) ==
    [kind |-> "ok", status |-> 200, headers |-> headers, bytes |-> bytes]
NetTransportError == [kind |-> "transport", status |-> 0, headers |-> NoHeaders, bytes |-> <<>>]
NetWorkerFailure == [kind |-> "join", status |-> 0, headers |-> NoHeaders, bytes |-> <<>>]
NetOutcomes(in_tokio) ==
    {NetOk(NoHeaders, <<>>), NetOk(OneHeader, LongBody)}
      \cup {NetTransportError}
      \cup (IF in_tokio THEN {NetWorkerFailure} ELSE {})

\* The steps of request after the URL parsed, by where the send runs and how
\* the network answers: the worker or the caller sends and drains the whole
\* body (:bytes), the transport fails, or the worker itself fails (join:err).
worker_steps(net) ==
    IF net.kind = "join" THEN <<"join:err">>
    ELSE IF net.kind = "ok" THEN <<"worker:send", "worker:bytes">>
    ELSE <<"worker:send", "transport:err">>
caller_steps(net) ==
    IF net.kind = "ok" THEN <<"caller:send", "caller:bytes">>
    ELSE <<"caller:send", "transport:err">>
request_result(net) ==
    IF net.kind = "ok" THEN "none" ELSE IF net.kind = "join" THEN "RuntimeError" ELSE "RequestError"

\* fn request(url, headers, method, body): val is the network's answer, ev the
\* steps taken, in order.
request_on_caller(url, in_tokio, net) ==
    [ok |-> net.kind = "ok", err |-> request_result(net), val |-> net,
     ev |-> <<IF in_tokio THEN "try_current:ok" ELSE "try_current:err">> \o caller_steps(net)]
request(url, in_tokio, net) ==
    IF ~Url_parse(url).ok THEN [ok |-> FALSE, err |-> "InvalidUrl", val |-> net, ev |-> <<>>]
    ELSE IF in_tokio
         THEN [ok |-> net.kind = "ok", err |-> request_result(net), val |-> net,
               ev |-> <<"try_current:ok", "spawn_blocking">> \o worker_steps(net)
                        \o <<"block_on">>]
         ELSE [ok |-> net.kind = "ok", err |-> request_result(net), val |-> net,
               ev |-> <<"try_current:err">> \o caller_steps(net)]

\* -------------------------------------------------------- Host Call Surface
\* What one host call did: its result ("Ok", the HttpError, "panic" when it
\* unwound) and the code the guest gets for it, the
\* guest memory, table and cursor after it, the memory indices it touched,
\* its steps in order, and for the record the handle it was about (req: the
\* handle inserted, -1 when none), the capacity given, the length needed
\* (header_get: of the value, -1 when none; body_read: the unread rest) and
\* the payload copied to the guest.
Outcome(result, m, resp, cur, idx, ev, handle, cap, need, data) ==
    [result |-> result, ret |-> host_return(result), mem |-> m, responses |-> resp,
     current_handle |-> cur, idx |-> idx,
     ev |-> ev, handle |-> handle, cap |-> cap, need |-> need, data |-> data]

\* fn close(st, caller, handle)
close_keep(resp, cur, m, handle) ==
    Outcome("Ok", m, resp, cur, {}, <<"remove">>, handle, -1, -1, <<>>)
close_all(resp, cur, m, handle) ==
    Outcome("Ok", m, EmptyMap, cur, {}, <<"remove">>, handle, -1, -1, <<>>)
close(resp, cur, m, handle) ==
    Outcome("Ok", m, Remove(resp, handle), cur, {}, <<"remove">>, handle, -1, -1, <<>>)

\* The three steps of body_read on the body.
body_available(buf_len, body) == Min(buf_len, Len(body.bytes) - body.pos)
body_chunk_from_start(body, available) == SubSeq(body.bytes, 1, available)
body_chunk(body, available) == SubSeq(body.bytes, body.pos + 1, body.pos + available)
body_advance_none(body, available) == body
body_advance(body, available) == [body EXCEPT !.pos = @ + available]

\* fn body_read(st, caller, handle, buf_ptr, buf_len, buf_read_ptr)
body_read(resp, cur, m, hasmem, handle, buf_ptr, buf_len, buf_read_ptr) ==
    IF handle \notin DOMAIN resp
    THEN Outcome("InvalidHandle", m, resp, cur, {}, <<"get_mut">>, handle, buf_len, -1, <<>>)
    ELSE LET body == resp[handle].body
             rest == Len(body.bytes) - body.pos
         IN
         IF ~hasmem
         THEN Outcome("MemoryNotFound", m, resp, cur, {}, <<"get_mut", "memory_get">>,
                      handle, buf_len, rest, <<>>)
         ELSE LET available == body_available(buf_len, body)
                  chunk == body_chunk(body, available)
                  w1 == memory_write(m, buf_ptr, chunk)
                  resp1 == [resp EXCEPT ![handle].body = body_advance(body, available)]
                  w2 == memory_write(w1.val, buf_read_ptr, to_le_bytes(available, U32Bytes))
              IN
              IF ~w1.ok
              THEN Outcome(w1.err, w1.val, resp, cur, w1.idx,
                           <<"get_mut", "memory_get", "write_buf">>,
                           handle, buf_len, rest, <<>>)
              ELSE IF ~w2.ok
              THEN Outcome(w2.err, w2.val, resp1, cur, w1.idx \cup w2.idx,
                           <<"get_mut", "memory_get", "write_buf", "advance", "write_len">>,
                           handle, buf_len, rest, chunk)
              ELSE Outcome("Ok", w2.val, resp1, cur, w1.idx \cup w2.idx,
                           <<"get_mut", "memory_get", "write_buf", "advance", "write_len">>,
                           handle, buf_len, rest, chunk)

\* HeaderMap::get
headers_get(headers, key) ==
    IF key \in DOMAIN headers THEN [some |-> TRUE, value |-> headers[key]]
    ELSE [some |-> FALSE, value |-> <<>>]

\* The capacity test of header_get.
value_fits_always(value, value_len) == TRUE
value_fits(value, value_len) == ~(Len(value) > value_len)

\* fn header_get(st, caller, handle, name_ptr, name_len, value_ptr, value_len,
\*               value_written_ptr)
header_get(resp, cur, m, hasmem, handle, name_ptr, name_len, value_ptr, value_len, value_written_ptr) ==
    IF handle \notin DOMAIN resp
    THEN Outcome("InvalidHandle", m, resp, cur, {}, <<"get">>, handle, value_len, -1, <<>>)
    ELSE IF ~hasmem
    THEN Outcome("MemoryNotFound", m, resp, cur, {}, <<"get", "memory_get">>,
                 handle, value_len, -1, <<>>)
    ELSE LET name == string_from_memory(m, name_ptr, name_len) IN
         IF ~name.ok
         THEN Outcome(name.err, m, resp, cur, name.idx, <<"get", "memory_get", "name">>,
                      handle, value_len, -1, <<>>)
         ELSE LET key == to_ascii_lowercase(name.val)
                  value == headers_get(resp[handle].headers, key)
              IN
              IF ~value.some
              THEN Outcome("HeaderNotFound", m, resp, cur, name.idx,
                           <<"get", "memory_get", "name", "lookup">>,
                           handle, value_len, -1, <<>>)
              ELSE IF ~value_fits(value.value, value_len)
              THEN Outcome("BufferTooSmall", m, resp, cur, name.idx,
                           <<"get", "memory_get", "name", "lookup">>,
                           handle, value_len, Len(value.value), <<>>)
              ELSE LET w1 == memory_write(m, value_ptr, value.value)
                       w2 == memory_write(w1.val, value_written_ptr,
                                          to_le_bytes(Len(value.value), U32Bytes))
                   IN
                   IF ~w1.ok
                   THEN Outcome(w1.err, w1.val, resp, cur, name.idx \cup w1.idx,
                                <<"get", "memory_get", "name", "lookup", "write_value">>,
                                handle, value_len, Len(value.value), <<>>)
                   ELSE Outcome(IF w2.ok THEN "Ok" ELSE w2.err, w2.val, resp, cur,
                                name.idx \cup w1.idx \cup w2.idx,
                                <<"get", "memory_get", "name", "lookup", "write_value",
                                  "write_len">>,
                                handle, value_len, Len(value.value), value.value)

\* fn req(st, allowed_hosts, caller, url, method, req_headers, req_body,
\*        status_code_ptr, res_handle_ptr); in_tokio is Handle::try_current()
\* and net what the network answers if it is asked.
req(resp, cur, m, hasmem, allowed, checks, url_ptr, url_len, method_ptr, method_len, req_headers_ptr, req_headers_len, req_body_ptr, req_body_len, status_code_ptr, res_handle_ptr, in_tokio, net) ==
    LET Fail(e, idx, ev) == Outcome(e, m, resp, cur, idx, ev, -1, -1, -1, <<>>)
        url == string_from_memory(m, url_ptr, url_len)
        method == string_from_memory(m, method_ptr, method_len)
        req_body == slice_from_memory(m, req_body_ptr, req_body_len)
        headers == string_from_memory(m, req_headers_ptr, req_headers_len)
        i1 == url.idx
        i2 == i1 \cup method.idx
        i3 == i2 \cup req_body.idx
        i4 == i3 \cup headers.idx
        e4 == <<"memory_get", "url", "method", "req_body", "headers">>
    IN
    IF ~hasmem THEN Fail("MemoryNotFound", {}, <<"memory_get">>)
    ELSE IF ~url.ok THEN Fail(url.err, i1, <<"memory_get", "url">>)
    ELSE IF ~method.ok THEN Fail(method.err, i2, <<"memory_get", "url", "method">>)
    ELSE IF ~Method_from_str(method.val)
         THEN Fail("InvalidMethod", i2, <<"memory_get", "url", "method">>)
    ELSE IF ~req_body.ok
         THEN Fail(req_body.err, i3, <<"memory_get", "url", "method", "req_body">>)
    ELSE IF ~headers.ok THEN Fail(headers.err, i4, e4)
    ELSE IF ~string_to_header_map(headers.val) THEN Fail("InvalidEncoding", i4, e4)
    ELSE LET gate == is_allowed(url.val, allowed) IN
         IF ~gate.ok THEN Fail(gate.err, i4, e4 \o <<"is_allowed">>)
         ELSE IF ~gate.val THEN Fail("DestinationNotAllowed", i4, e4 \o <<"is_allowed:false">>)
         ELSE LET r == request(url.val, in_tokio, net)
                  e5 == e4 \o <<"is_allowed:true", "request">> \o r.ev
              IN
              IF ~r.ok THEN Fail(r.err, i4, e5)
              ELSE LET w1 == memory_write(m, status_code_ptr,
                                          to_le_bytes(r.val.status, U16Bytes))
                       response == Response(r.val.headers, Body(r.val.bytes, 0))
                       slot == allocate(resp, cur, checks)
                       handle == slot.cursor
                       resp1 == Insert(resp, handle, response)
                       w2 == memory_write(w1.val, res_handle_ptr,
                                          to_le_bytes(handle, U32Bytes))
                   IN
                   IF ~w1.ok
                   THEN Outcome(w1.err, w1.val, resp, cur, i4 \cup w1.idx,
                                e5 \o <<"write_status">>, -1, -1, -1, <<>>)
                   ELSE IF slot.kind = "panic"
                   THEN Outcome("panic", w1.val, resp, slot.cursor, i4 \cup w1.idx,
                                e5 \o <<"write_status", "probe">>, -1, -1, -1, <<>>)
                   ELSE IF slot.kind = "full"
                   THEN Outcome("TooManySessions", w1.val, resp, slot.cursor, i4 \cup w1.idx,
                                e5 \o <<"write_status", "probe">>, -1, -1, -1, <<>>)
                   ELSE Outcome(IF w2.ok THEN "Ok" ELSE w2.err, w2.val, resp1, handle,
                                i4 \cup w1.idx \cup w2.idx,
                                e5 \o <<"write_status", "probe", "insert", "write_handle">>,
                                handle, -1, -1, <<>>)

\* ------------------------------------------------------------------- state
VARIABLES
    mem,              \* the guest's linear memory, index -> byte
    has_memory,       \* the guest exports "memory"
    responses,        \* State.responses
    current_handle,   \* State.current_handle
    allowed_hosts,    \* Http.allowed_hosts
    overflow_checks,  \* the build unwinds on integer overflow
    panicked,         \* a host call has unwound
    last,             \* the host call that has just returned to the guest: op, ret,
                      \* handle, cap, need, data (op = "none" while the guest runs)
    touched,          \* the memory indices that host call touched
    trace,            \* the steps of that host call, in order
    issued,           \* handle -> response, for the handles the guest was given
                      \* by a req that returned 0 and has not closed since
    closed,           \* the handles closed and not inserted again since
    ia,               \* one call of is_allowed: its inputs and its result
    br,               \* one access to guest memory: its inputs and its result
    rd,               \* two calls of body_read in a row: inputs and results
    gi                \* guest instances: the Http objects, the instances linked to
                      \* them, the handles each instance was given, the last call

vars == <<mem, has_memory, responses, current_handle, allowed_hosts, overflow_checks,
          panicked, last, touched, trace, issued, closed, ia, br, rd, gi>>

\* The variables of the single-function specifications below.
pure == <<ia, br, rd, gi>>

\* What the guest lays out in its memory before a host call: the URL "sa" at
\* 0, the method "G" at 2, the header name "K" at 3, and buffers after them
\* filled with 0xFF, a byte no host call writes.
GuestImage ==
    [i \in 0..(MemSize - 1) |->
        IF i = 0 THEN ChS ELSE IF i = 1 THEN ChA ELSE IF i = 2 THEN ChG
        ELSE IF i = 3 THEN ChK ELSE 255]

\* The allow-lists an embedder may configure.
AllowLists ==
    {None, Some(<<>>), Some(<<<<ChH, ChA, ChPort>>>>), Some(<<<<ChS, ChB>>>>),
     Some(<<<<ChM, ChA>>, <<ChS, ChA>>>>), Some(<<<<ChA>>>>)}

NoQuery == [stage |-> "none", url |-> <<>>, domains |-> None, result |-> Err("none")]
NoAccess == [stage |-> "none", kind |-> "none", offset |-> 0, len |-> 0,
             result |-> Access(FALSE, "none", <<>>, {})]
NoReads == [stage |-> "none", n |-> 0, m |-> 0, start |-> EmptyMap, ret1 |-> 0,
            first |-> <<>>, pos1 |-> 0, ret2 |-> 0, second |-> <<>>]
NoInstances == [https |-> <<>>, link |-> <<>>, got |-> {},
                last |-> [inst |-> 0, op |-> "none", handle |-> -1, ret |-> 0]]
NoCall == [op |-> "none", ret |-> 0, result |-> "none", handle |-> -1, cap |-> -1,
           need |-> -1, data |-> <<>>]

Init ==
    /\ mem = GuestImage
    /\ has_memory \in BOOLEAN
    /\ responses = EmptyMap
    /\ current_handle = 0
    /\ allowed_hosts \in AllowLists
    /\ overflow_checks \in BOOLEAN
    /\ panicked = FALSE
    /\ last = NoCall
    /\ touched = {}
    /\ trace = <<>>
    /\ issued = EmptyMap
    /\ closed = {}
    /\ ia = NoQuery
    /\ br = NoAccess
    /\ rd = NoReads
    /\ gi = NoInstances

\* The arguments a guest passes: in range, at the end of memory, across it,
\* and with offset+len beyond the address type.
Offsets == {4, MemSize - 1, AddrMax}
Lens == {1, 2, AddrMax}
NameArgs == {<<3, 1>>, <<2, 1>>, <<4, 1>>, <<AddrMax, 1>>}
\* The inputs of req as <<url, method, headers, body>>, each <<ptr, len>>: the
\* well-formed request, and the same with one input replaced by a bad one.
GoodReq == <<<<0, 2>>, <<2, 1>>, <<0, 0>>, <<0, 0>>>>
ReqArgs ==
    {GoodReq}
      \cup {[GoodReq EXCEPT ![1] = u] :
                u \in {<<0, 3>>, <<1, 2>>, <<4, 1>>, <<MemSize - 1, 2>>, <<AddrMax, 1>>}}
      \cup {[GoodReq EXCEPT ![2] = <<2, 0>>], [GoodReq EXCEPT ![3] = <<3, 1>>],
            [GoodReq EXCEPT ![4] = <<4, MemSize>>]}

\* The guest is running: no host call is being answered.
GuestRuns == last.op = "none" /\ ~panicked

\* The state when a host call returns with outcome o.
Apply(op, o) ==
    /\ mem' = o.mem
    /\ responses' = o.responses
    /\ current_handle' = o.current_handle
    /\ panicked' = (o.ret = Panic)
    /\ last' = [op |-> op, ret |-> o.ret, result |-> o.result, handle |-> o.handle,
                cap |-> o.cap, need |-> o.need, data |-> o.data]
    /\ touched' = o.idx
    /\ trace' = o.ev
    /\ UNCHANGED <<has_memory, allowed_hosts, overflow_checks>>

Close ==
    /\ GuestRuns
    /\ \E handle \in Handles :
        /\ Apply("close", close(responses, current_handle, mem, handle))
        /\ issued' = Remove(issued, handle)
        /\ closed' = closed \cup {handle}
        /\ UNCHANGED pure

BodyRead ==
    /\ GuestRuns
    /\ \E handle \in Handles, buf_ptr \in Offsets, buf_len \in Lens, buf_read_ptr \in Offsets :
        /\ Apply("body_read",
                 body_read(responses, current_handle, mem, has_memory,
                           handle, buf_ptr, buf_len, buf_read_ptr))
        /\ UNCHANGED <<issued, closed, ia, br, rd, gi>>

HeaderGet ==
    /\ GuestRuns
    /\ \E handle \in Handles, name \in NameArgs, value_ptr \in Offsets, value_len \in Lens,
          value_written_ptr \in Offsets :
        /\ Apply("header_get",
                 header_get(responses, current_handle, mem, has_memory, handle,
                            name[1], name[2], value_ptr, value_len, value_written_ptr))
        /\ UNCHANGED <<issued, closed, ia, br, rd, gi>>

\* The request reached the dispatcher.
Dispatched(ev) == \E i \in 1..Len(ev) : ev[i] = "request"

ApplyReq(o) ==
    /\ Apply("req", o)
    /\ issued' = IF o.ret = 0 /\ o.handle \notin DOMAIN issued
                 THEN Insert(issued, o.handle, o.responses[o.handle])
                 ELSE issued
    /\ closed' = closed \ {o.handle}
    /\ UNCHANGED pure

Req ==
    /\ GuestRuns
    /\ \E args \in ReqArgs, status_code_ptr \in Offsets, res_handle_ptr \in Offsets :
        LET url == args[1]
            method == args[2]
            headers == args[3]
            body == args[4]
            Call(in_tokio, net) ==
                req(responses, current_handle, mem, has_memory, allowed_hosts,
                    overflow_checks, url[1], url[2], method[1], method[2],
                    headers[1], headers[2], body[1], body[2],
                    status_code_ptr, res_handle_ptr, in_tokio, net)
            early == Call(FALSE, NetTransportError)
        IN  IF ~Dispatched(early.ev) THEN ApplyReq(early)
            ELSE \E in_tokio \in BOOLEAN :
                    \E net \in NetOutcomes(in_tokio) : ApplyReq(Call(in_tokio, net))

\* The guest takes the answer of the host call and goes on: it lays out its
\* memory for the next call.  The host does not run in this step.
Guest ==
    /\ last.op # "none"
    /\ ~panicked
    /\ mem' = GuestImage
    /\ last' = NoCall
    /\ touched' = {}
    /\ trace' = <<>>
    /\ UNCHANGED <<has_memory, responses, current_handle, allowed_hosts, overflow_checks,
                   panicked, issued, closed, ia, br, rd, gi>>

Next == Close \/ BodyRead \/ HeaderGet \/ Req \/ Guest

Spec == Init /\ [][Next]_vars

\* --------------------------------------------- is_allowed as a function
MaxUrlLen == 3
MaxListLen == 2

\* The texts of at most n bytes over the alphabet.
UrlAlphabet == {ChS, ChH, ChM, ChA, ChB, ChUpperA, ChPort, ChSlash}
RECURSIVE Texts(_)
Texts(n) ==
    IF n = 0 THEN {<<>>}
    ELSE LET shorter == Texts(n - 1)
         IN  shorter \cup {Append(t, c) : t \in {x \in shorter : Len(x) = n - 1},
                                          c \in UrlAlphabet}

\* Allow-list entries: hosts a and b under both schemes, with a port, with a
\* path, in upper case; an entry without a host; an entry that does not parse.
Entries ==
    {<<ChS, ChA>>, <<ChH, ChB>>, <<ChH, ChA, ChPort, ChSlash>>, <<ChS, ChUpperA>>,
     <<ChM, ChA>>, <<ChA>>}
RECURSIVE Lists(_)
Lists(n) ==
    IF n = 0 THEN {<<>>}
    ELSE LET shorter == Lists(n - 1)
         IN  shorter \cup {Append(l, e) : l \in {x \in shorter : Len(x) = n - 1},
                                          e \in Entries}

\* The host-call state while a single function is exercised.
Idle ==
    /\ mem = GuestImage
    /\ has_memory = TRUE
    /\ responses = EmptyMap
    /\ current_handle = 0
    /\ allowed_hosts = None
    /\ overflow_checks = FALSE
    /\ panicked = FALSE
    /\ last = NoCall
    /\ touched = {}
    /\ trace = <<>>
    /\ issued = EmptyMap
    /\ closed = {}

InitAllowed ==
    /\ Idle
    /\ br = NoAccess
    /\ rd = NoReads
    /\ gi = NoInstances
    /\ \E url \in Texts(MaxUrlLen), domains \in {None} \cup {Some(l) : l \in Lists(MaxListLen)} :
          ia = [stage |-> "input", url |-> url, domains |-> domains, result |-> Err("none")]

IsAllowed ==
    /\ ia.stage = "input"
    /\ ia' = [ia EXCEPT !.stage = "done", !.result = is_allowed(ia.url, ia.domains)]
    /\ UNCHANGED <<mem, has_memory, responses, current_handle, allowed_hosts, overflow_checks,
                   panicked, last, touched, trace, issued, closed, br, rd, gi>>

NextAllowed == IsAllowed

SpecAllowed == InitAllowed /\ [][NextAllowed]_vars

\* The call of is_allowed has returned; its URL parses and has a host.
AllowedDone == ia.stage = "done"
UrlHasHost == Url_parse(ia.url).ok /\ Url_parse(ia.url).val.host # NoHost
ReturnedTrue == ia.result.ok /\ ia.result.val
ReturnedFalse == ia.result.ok /\ ~ia.result.val

\* C6 as stated: with no allow-list configured, is_allowed returns false for
\* every URL text it is given.
C6_FalseForEveryUrl ==
    (AllowedDone /\ ~ia.domains.some) => ReturnedFalse

\* C6, amended: with no allow-list configured, is_allowed never returns true:
\* it returns false for every URL that parses and has a host, and fails with
\* invalid URL for every text that does not parse or has no host.
C6_NoListDenies ==
    (AllowedDone /\ ~ia.domains.some) =>
        /\ ~ReturnedTrue
        /\ UrlHasHost => ReturnedFalse
        /\ ~UrlHasHost => (~ia.result.ok /\ ia.result.err = "InvalidUrl")

\* No list configured, a URL that parses with a host, and false returned.
C6_Witness ==
    AllowedDone /\ ~ia.domains.some /\ UrlHasHost /\ ReturnedFalse

\* Every entry of the list parses; the host of the URL is the host of an entry.
EntriesParse == \A i \in 1..Len(ia.domains.list) : Url_parse(ia.domains.list[i]).ok
HostListed ==
    \E i \in 1..Len(ia.domains.list) :
        Url_parse(ia.domains.list[i]).val.host = Url_parse(ia.url).val.host

\* C7: with an allow-list whose entries all parse, is_allowed of a URL that
\* parses and has a host returns true if and only if that host equals the host
\* of at least one entry, whatever the schemes, ports and paths are.
C7_HostOnlyMatch ==
    (AllowedDone /\ ia.domains.some /\ EntriesParse /\ UrlHasHost) =>
        (ReturnedTrue <=> HostListed)

\* ------------------------------------------- the Memory Bridge as a function
\* The buffer a write of len bytes copies.
Payload(len) == [i \in 1..len |-> 1]

InitBridge ==
    /\ Idle
    /\ ia = NoQuery
    /\ rd = NoReads
    /\ gi = NoInstances
    /\ \E kind \in {"read", "write"}, offset \in 0..AddrMax, len \in 0..AddrMax :
          br = [stage |-> "input", kind |-> kind, offset |-> offset, len |-> len,
                result |-> Access(FALSE, "none", <<>>, {})]

\* slice_from_memory(memory, offset, len)
BridgeRead ==
    /\ br.stage = "input"
    /\ br.kind = "read"
    /\ br' = [br EXCEPT !.stage = "done",
                        !.result = slice_from_memory(mem, br.offset, br.len)]
    /\ UNCHANGED <<mem, has_memory, responses, current_handle, allowed_hosts, overflow_checks,
                   panicked, last, touched, trace, issued, closed, ia, rd, gi>>

\* memory.write(offset, buffer) with a buffer of len bytes
BridgeWrite ==
    /\ br.stage = "input"
    /\ br.kind = "write"
    /\ LET w == memory_write(mem, br.offset, Payload(br.len))
       IN  /\ mem' = w.val
           /\ br' = [br EXCEPT !.stage = "done", !.result = [w EXCEPT !.val = <<>>]]
    /\ UNCHANGED <<has_memory, responses, current_handle, allowed_hosts, overflow_checks,
                   panicked, last, touched, trace, issued, closed, ia, rd, gi>>

NextBridge == BridgeRead \/ BridgeWrite

SpecBridge == InitBridge /\ [][NextBridge]_vars

\* The access asked for more than the memory holds, or than the address type
\* can express.
BridgeDone == br.stage = "done"
OutOfRange == br.offset + br.len > MemSize \/ br.offset + br.len > AddrMax

\* C10: a read or write of the Memory Bridge whose offset+length exceeds the
\* guest memory size or overflows the address type fails with the bounds error
\* (buffer too small for a read, memory access out of range for a write) and
\* copies nothing: no data is returned, no index is touched and guest memory is
\* as before.
C10_OutOfRangeFails ==
    (BridgeDone /\ OutOfRange) =>
        /\ ~br.result.ok
        /\ br.result.err = (IF br.kind = "read" THEN "BufferTooSmall"
                                                 ELSE "MemoryAccessError")
        /\ br.result.val = <<>>
        /\ br.result.idx = {}
        /\ mem = GuestImage

\* A write that starts inside the memory and would run across its end.
C10_Witness ==
    /\ BridgeDone
    /\ br.kind = "write"
    /\ br.offset < MemSize
    /\ br.offset + br.len > MemSize
    /\ ~br.result.ok

\* ------------------------------------------------ body_read, twice in a row
\* A table in which handle 0 is live with a body of len bytes read up to pos.
OneLive(len, pos) == Insert(EmptyMap, 0, Response(OneHeader, Body(BodyBytes(len), pos)))

InitReads ==
    /\ mem = GuestImage
    /\ has_memory = TRUE
    /\ current_handle = 0
    /\ allowed_hosts = None
    /\ overflow_checks = FALSE
    /\ panicked = FALSE
    /\ last = NoCall
    /\ touched = {}
    /\ trace = <<>>
    /\ closed = {}
    /\ ia = NoQuery
    /\ br = NoAccess
    /\ gi = NoInstances
    /\ \E len \in 0..MaxBodyLen :
         \E pos \in 0..len, n \in 0..(MaxBodyLen + 1), m \in 0..(MaxBodyLen + 1) :
            /\ responses = OneLive(len, pos)
            /\ issued = responses
            /\ rd = [NoReads EXCEPT !.stage = "start", !.n = n, !.m = m,
                                    !.start = responses]

\* Where the guest has the byte count written (the payload goes to offset 0):
\* a slot that holds it, or one outside the memory.
ReadSlots == {MemSize - U32Bytes, AddrMax}

\* body_read(handle 0, capacity n)
ReadFirst ==
    /\ rd.stage = "start"
    /\ \E buf_read_ptr \in ReadSlots :
        LET o == body_read(responses, current_handle, mem, has_memory,
                           0, 0, rd.n, buf_read_ptr)
        IN  /\ Apply("body_read", o)
            /\ rd' = [rd EXCEPT !.stage = "first", !.ret1 = o.ret, !.first = o.data,
                                !.pos1 = o.responses[0].body.pos]
    /\ UNCHANGED <<issued, closed, ia, br, gi>>

\* body_read(handle 0, capacity m), after the guest has laid out its memory again
ReadSecond ==
    /\ rd.stage = "first"
    /\ \E buf_read_ptr \in ReadSlots :
        LET o == body_read(responses, current_handle, GuestImage, has_memory,
                           0, 0, rd.m, buf_read_ptr)
        IN  /\ Apply("body_read", o)
            /\ rd' = [rd EXCEPT !.stage = "second", !.ret2 = o.ret, !.second = o.data]
    /\ UNCHANGED <<issued, closed, ia, br, gi>>

NextReads == ReadFirst \/ ReadSecond

SpecReads == InitReads /\ [][NextReads]_vars

\* Both reads have returned 0.
TwoReads == rd.stage = "second" /\ rd.ret1 = 0 /\ rd.ret2 = 0

\* What one body_read with capacity n+m delivers from the cursor the two reads
\* started at.
SingleRead ==
    body_read(rd.start, 0, GuestImage, TRUE, 0, 0, rd.n + rd.m, MemSize - U32Bytes)

\* C8: a successful body_read with capacity N followed by a successful
\* body_read with capacity M on the same handle delivers, concatenated, exactly
\* the bytes one body_read with capacity N+M delivers from the same starting
\* cursor, and the two reads deliver disjoint stretches of the body: the second
\* starts where the first ended.
C8_ReadsConcatenate ==
    TwoReads =>
        LET body == rd.start[0].body IN
        /\ SingleRead.ret = 0
        /\ rd.first \o rd.second = SingleRead.data
        /\ rd.first = SubSeq(body.bytes, body.pos + 1, body.pos + Len(rd.first))
        /\ rd.pos1 = body.pos + Len(rd.first)
        /\ rd.second = SubSeq(body.bytes, rd.pos1 + 1, rd.pos1 + Len(rd.second))
        /\ responses[0].body.pos = rd.pos1 + Len(rd.second)

\* Two successful reads that each delivered bytes, the second up to the end.
C8_Witness ==
    /\ TwoReads
    /\ Len(rd.first) > 0
    /\ Len(rd.second) > 0
    /\ Len(rd.first) = rd.n
    /\ Len(rd.second) < rd.m

\* ------------------------------------------------- claims on the host calls
\* The steps of the last host call that reach the network.
NetworkSteps ==
    {"request", "spawn_blocking", "worker:send", "worker:bytes", "caller:send",
     "caller:bytes", "transport:err", "join:err", "block_on"}
Did(step) == \E i \in 1..Len(trace) : trace[i] = step

\* C1: whatever offsets and lengths the guest passes to req, body_read,
\* header_get and close, every index of guest memory a host call reads or
\* writes lies in [0, MemSize), and the memory keeps its size.
C1_AccessInBounds ==
    /\ touched \subseteq 0..(MemSize - 1)
    /\ DOMAIN mem = 0..(MemSize - 1)

\* A host call that was given a range outside the memory, and one that wrote
\* the last byte of the memory.
C1_Witness ==
    /\ last.op = "body_read"
    /\ last.ret = MemoryAccessError
    /\ (MemSize - 1) \in touched

\* C2: every handle that a req returning 0 gave to the guest and that the guest
\* has not closed since is a key of the table and maps to the headers and body
\* bytes of that request's response.
C2_IssuedHandlesLive ==
    \A h \in DOMAIN issued :
        /\ h \in DOMAIN responses
        /\ responses[h].headers = issued[h].headers
        /\ responses[h].body.bytes = issued[h].body.bytes

\* A later req has returned another handle while an earlier one is still held.
C2_Witness ==
    /\ last.op = "req"
    /\ last.ret = 0
    /\ \E h \in DOMAIN issued : h # last.handle /\ issued[h] # issued[last.handle]

\* C3: body_read and header_get on a handle given out by a successful req and
\* not closed since do not return invalid handle; on a handle closed and not
\* allocated again since they return invalid handle and change neither the
\* table nor guest memory.
C3_ValidUntilClosed ==
    [][(last'.op \in {"body_read", "header_get"}) =>
          /\ (last'.handle \in DOMAIN issued) => last'.ret # InvalidHandle
          /\ (last'.handle \in closed) =>
                /\ last'.ret = InvalidHandle
                /\ responses' = responses
                /\ current_handle' = current_handle
                /\ mem' = mem]_vars

\* A read on a closed handle was refused.
C3_Witness ==
    /\ last.op = "body_read"
    /\ last.ret = InvalidHandle
    /\ last.handle \in closed

\* C4 as stated: a req that gets as far as allocating a handle while every
\* handle is live returns handle space exhausted, and no req inserts under a
\* live handle or changes a live entry.
C4_ExhaustedNotOverwritten ==
    [][(last'.op = "req") =>
          /\ (DOMAIN responses = Handles /\ Did("probe")') => last'.ret = TooManySessions
          /\ last'.handle # -1 => last'.handle \notin DOMAIN responses
          /\ \A h \in DOMAIN responses :
                h \in DOMAIN responses' /\ responses'[h] = responses[h]]_vars

\* C5: a request reaches the network only after is_allowed returned true for
\* its URL; with no allow-list or an empty one no req reaches the network and
\* the table stays empty.
C5_GateBeforeNetwork ==
    /\ \A i \in 1..Len(trace) :
          trace[i] \in NetworkSteps => \E j \in 1..(i - 1) : trace[j] = "is_allowed:true"
    /\ (~allowed_hosts.some \/ allowed_hosts.list = <<>>) =>
          /\ \A i \in 1..Len(trace) : trace[i] \notin NetworkSteps
          /\ responses = EmptyMap

\* A req was let through and sent on the calling thread.
C5_Witness ==
    /\ last.op = "req"
    /\ last.ret = 0
    /\ Did("is_allowed:true")
    /\ Did("caller:send")

\* C9: header_get on a live handle for a header that exists, with a capacity
\* smaller than the length of its value, returns buffer too small and leaves
\* guest memory as it was.
C9_ShortBufferUntouched ==
    [][(last'.op = "header_get" /\ last'.need >= 0 /\ last'.cap < last'.need) =>
          /\ last'.ret = BufferTooSmall
          /\ mem' = mem]_vars

\* The capacity was one byte short.
C9_Witness ==
    /\ last.op = "header_get"
    /\ last.need = last.cap + 1
    /\ last.ret = BufferTooSmall

\* C11: close(h) returns 0 whether h is live, unknown or already closed; after
\* it h is no key of the table; every other handle's entry, the allocation
\* cursor and guest memory are as before; and closing h once more changes
\* nothing.
C11_CloseIdempotentFramed ==
    [][(last'.op = "close") =>
          /\ last'.ret = 0
          /\ last'.handle \notin DOMAIN responses'
          /\ DOMAIN responses' = DOMAIN responses \ {last'.handle}
          /\ \A h \in DOMAIN responses' : responses'[h] = responses[h]
          /\ current_handle' = current_handle
          /\ mem' = mem
          /\ close(responses', current_handle', mem', last'.handle).responses = responses'
          /\ close(responses', current_handle', mem', last'.handle).ret = 0]_vars

\* A live handle was closed while another one stays live, its body partly read.
C11_Witness ==
    /\ last.op = "close"
    /\ last.handle \in closed
    /\ \E h \in DOMAIN responses : h # last.handle /\ responses[h].body.pos > 0

\* C12 as stated: every host call, from every reachable state, with every
\* argument and every allow-list, returns an outcome code; none unwinds.
C12_EveryCallReturns == ~panicked

\* ------------------------------------------------------- guest instances
MaxInstances == 2

\* State::default(), the state Http::new creates.
State_default == [responses |-> EmptyMap, current_handle |-> 0]

\* The allow-list every Http object is created with here.
InstanceAllowList == Some(<<<<ChS, ChA>>>>)

InitInstances ==
    /\ Idle
    /\ ia = NoQuery
    /\ br = NoAccess
    /\ rd = NoReads
    /\ gi = NoInstances

\* The state the closures of instance i captured: add_to_linker clones the Rc
\* of the Http object's state into each of them.
StateOf(i) == gi.https[gi.link[i]]

\* A call of instance i returned ret and left the state st behind.
Returned(i, op, handle, ret, st, got) ==
    /\ gi' = [gi EXCEPT !.https[gi.link[i]] = st,
                        !.got = got,
                        !.last = [inst |-> i, op |-> op, handle |-> handle, ret |-> ret]]
    /\ UNCHANGED <<mem, has_memory, responses, current_handle, allowed_hosts, overflow_checks,
                   panicked, last, touched, trace, issued, closed, ia, br, rd>>

\* The embedder instantiates one more guest instance: from a linker that a new
\* Http object was added to (k is new), or again from the linker that Http
\* object k was added to before.
Instantiate ==
    /\ Len(gi.link) < MaxInstances
    /\ \E k \in 1..(Len(gi.https) + 1) :
          gi' = [gi EXCEPT !.https = IF k > Len(gi.https) THEN Append(@, State_default) ELSE @,
                           !.link = Append(@, k),
                           !.last = [inst |-> Len(gi.link) + 1, op |-> "instantiate",
                                     handle |-> -1, ret |-> 0]]
    /\ UNCHANGED <<mem, has_memory, responses, current_handle, allowed_hosts, overflow_checks,
                   panicked, last, touched, trace, issued, closed, ia, br, rd>>

\* Instance i issues the well-formed request; the network answers.
InstReq ==
    \E i \in 1..Len(gi.link) :
        LET st == StateOf(i)
            o == req(st.responses, st.current_handle, GuestImage, TRUE, InstanceAllowList,
                     FALSE, 0, 2, 2, 1, 0, 0, 0, 0, 4, 4, FALSE, NetOk(OneHeader, <<>>))
        IN  Returned(i, "req", o.handle, o.ret,
                     [responses |-> o.responses, current_handle |-> o.current_handle],
                     IF o.ret = 0 THEN gi.got \cup {<<i, o.handle>>} ELSE gi.got)

InstBodyRead ==
    \E i \in 1..Len(gi.link), handle \in Handles :
        LET st == StateOf(i)
            o == body_read(st.responses, st.current_handle, GuestImage, TRUE, handle, 4, 1, 4)
        IN  Returned(i, "body_read", handle, o.ret,
                     [responses |-> o.responses, current_handle |-> o.current_handle], gi.got)

InstHeaderGet ==
    \E i \in 1..Len(gi.link), handle \in Handles :
        LET st == StateOf(i)
            o == header_get(st.responses, st.current_handle, GuestImage, TRUE, handle,
                            3, 1, 4, 2, 4)
        IN  Returned(i, "header_get", handle, o.ret,
                     [responses |-> o.responses, current_handle |-> o.current_handle], gi.got)

InstClose ==
    \E i \in 1..Len(gi.link), handle \in Handles :
        LET st == StateOf(i)
            o == close(st.responses, st.current_handle, GuestImage, handle)
        IN  Returned(i, "close", handle, o.ret,
                     [responses |-> o.responses, current_handle |-> o.current_handle],
                     {g \in gi.got : ~(g[2] = handle /\ gi.link[g[1]] = gi.link[i])})

NextInstances == Instantiate \/ InstReq \/ InstBodyRead \/ InstHeaderGet \/ InstClose

SpecInstances == InitInstances /\ [][NextInstances]_vars

\* Handle h was given to an instance other than i and not to i.
ForeignTo(i, h) == <<i, h>> \notin gi.got /\ \E g \in gi.got : g[2] = h /\ g[1] # i

\* C13 as stated: a newly instantiated guest instance starts with an empty
\* table, and a handle that one instance obtained is invalid for body_read and
\* header_get in every other instance and is not removed by a close of another
\* instance, however the calls of the instances interleave.
C13_InstancesIsolated ==
    [][/\ (gi'.last.op = "instantiate") =>
              gi'.https[gi'.link[gi'.last.inst]].responses = EmptyMap
       /\ (gi'.last.op \in {"body_read", "header_get"}
             /\ ForeignTo(gi'.last.inst, gi'.last.handle)) =>
              gi'.last.ret = InvalidHandle
       /\ (gi'.last.op = "close") =>
              \A g \in gi.got :
                  ForeignTo(gi'.last.inst, g[2]) =>
                      g[2] \in DOMAIN gi'.https[gi.link[g[1]]].responses]_vars

\* Step a of the last host call came before its step b.
Before(a, b) == \E i, j \in 1..Len(trace) : i < j /\ trace[i] = a /\ trace[j] = b
\* What the worker does, what the caller does itself, what req does after
\* request has returned.
WorkerSteps == {"worker:send", "worker:bytes", "join:err"}
CallerSteps == {"caller:send", "caller:bytes"}
AfterRequest == {"write_status", "probe", "insert", "write_handle"}

\* C14: inside a task runtime the network call is made by a worker, not by the
\* calling thread, and the caller waits for the worker; outside one the calling
\* thread makes it.  Either way req goes on only after the whole body was
\* drained, and returns 12 when the worker itself failed and 11 when the
\* transport failed, without doing anything else.
C14_OffloadAndWait ==
    Did("request") =>
        /\ Did("try_current:ok") \/ Did("try_current:err")
        /\ Did("try_current:ok") =>
              /\ Before("spawn_blocking", "block_on")
              /\ \A i \in 1..Len(trace) : trace[i] \notin CallerSteps
              /\ \E step \in WorkerSteps : Did(step)
              /\ \A step \in WorkerSteps \cup {"transport:err"} :
                    Did(step) => Before("spawn_blocking", step) /\ Before(step, "block_on")
        /\ Did("try_current:err") =>
              /\ Did("caller:send")
              /\ \A i \in 1..Len(trace) :
                    trace[i] \notin WorkerSteps \cup {"spawn_blocking", "block_on"}
        /\ \A i \in 1..Len(trace) :
              trace[i] \in AfterRequest =>
                  \E j \in 1..(i - 1) : trace[j] \in {"worker:bytes", "caller:bytes"}
        /\ last.ret = 0 => (Did("worker:bytes") \/ Did("caller:bytes"))
        /\ Did("join:err") => last.ret = RuntimeError
        /\ Did("transport:err") => last.ret = RequestError
        /\ (Did("join:err") \/ Did("transport:err")) =>
              \A i \in 1..Len(trace) : trace[i] \notin AfterRequest

\* A req inside a task runtime whose worker sent the request and drained the
\* body, and that the caller waited for.
C14_Witness ==
    /\ last.op = "req"
    /\ last.ret = 0
    /\ Did("try_current:ok")
    /\ Before("worker:bytes", "block_on")

\* The code of each failure, as the interface fixes it.
FixedCode ==
    [InvalidHandle |-> 1, MemoryNotFound |-> 2, MemoryAccessError |-> 3,
     BufferTooSmall |-> 4, HeaderNotFound |-> 5, UTF8Error |-> 6,
     DestinationNotAllowed |-> 7, InvalidMethod |-> 8, InvalidEncoding |-> 9,
     InvalidUrl |-> 10, RequestError |-> 11, RuntimeError |-> 12, TooManySessions |-> 13]

\* C15: a host call that returns returns 0 if and only if the operation
\* succeeded, and otherwise the fixed code of its failure; the translation is
\* total on the failures, the thirteen codes are pairwise distinct and none of
\* them is 0.
C15_OneTotalMapping ==
    /\ DOMAIN FixedCode = HttpError
    /\ \A e \in HttpError : u32_from(e) = FixedCode[e] /\ u32_from(e) # 0
    /\ \A e1, e2 \in HttpError : e1 # e2 => u32_from(e1) # u32_from(e2)
    /\ (last.op # "none" /\ ~panicked) =>
          /\ last.ret = 0 <=> last.result = "Ok"
          /\ last.result # "Ok" =>
                last.result \in HttpError /\ last.ret = FixedCode[last.result]

\* A req that failed for want of a free handle returned 13.
C15_Witness ==
    /\ last.op = "req"
    /\ last.result = "TooManySessions"
    /\ last.ret = 13

\* The first handle that is no key of resp, counting upward from cur and from
\* the maximum handle on to 0; -1 when every handle is a key.
FirstFree(resp, cur) ==
    LET at(k) == (cur + k) % (HandleMax + 1)
        free == {k \in 0..HandleMax : at(k) \notin DOMAIN resp}
    IN  IF free = {} THEN -1
        ELSE at(CHOOSE k \in free : \A l \in free : k <= l)

\* C16 as stated: a req that gets as far as allocating takes the first free
\* handle at or above the cursor, going on from the maximum handle to 0; it
\* stores the response under that handle and leaves the cursor on it.  When no
\* handle is free it returns 13 with cursor and table as before.
C16_ProbeUpwardWrapping ==
    [][(last'.op = "req" /\ Did("probe")') =>
          LET slot == FirstFree(responses, current_handle)
          IN  IF slot = -1
              THEN /\ last'.ret = TooManySessions
                   /\ current_handle' = current_handle
                   /\ responses' = responses
              ELSE /\ last'.handle = slot
                   /\ current_handle' = slot
                   /\ slot \in DOMAIN responses']_vars

\* Guest memory holds the little-endian count n at one of the offsets the
\* guest passes.
CountWritten(m, n) == \E q \in Offsets : Bytes(m, q, U32Bytes) = to_le_bytes(n, U32Bytes)

\* C17: a body_read that returns 0, given capacity c on a body of length L
\* read up to p, copies exactly the min(c, L-p) bytes body[p .. p+min(c, L-p)),
\* advances the cursor by that number and reports that number; at the end of
\* the body it succeeds with 0 bytes.  Always 0 <= cursor <= L, and no step
\* decreases the cursor of an entry.
C17_ReadAdvancesByCopied ==
    [][/\ (last'.op = "body_read" /\ last'.ret = 0) =>
              LET h == last'.handle
                  body == responses[h].body
                  L == Len(body.bytes)
                  p == body.pos
                  n == IF last'.cap < L - p THEN last'.cap ELSE L - p
              IN  /\ h \in DOMAIN responses
                  /\ Len(last'.data) = n
                  /\ last'.data = [i \in 1..n |-> body.bytes[p + i]]
                  /\ responses'[h].body.pos = p + n
                  /\ responses'[h].body.bytes = body.bytes
                  /\ CountWritten(mem', n)
                  /\ p = L => n = 0
       /\ \A h \in DOMAIN responses' :
              /\ 0 <= responses'[h].body.pos
              /\ responses'[h].body.pos <= Len(responses'[h].body.bytes)
       /\ \A h \in DOMAIN responses \cap DOMAIN responses' :
              responses'[h].body.pos >= responses[h].body.pos]_vars

\* A read that started in the middle of the body and delivered the rest, less
\* than the capacity given.
C17_Witness ==
    /\ last.op = "body_read"
    /\ last.ret = 0
    /\ Len(last.data) > 0
    /\ Len(last.data) < last.cap
    /\ Len(last.data) < Len(responses[last.handle].body.bytes)

\* The last host call returned a failure code.
Failed(call) == call.op \in {"req", "body_read", "header_get", "close"}
                    /\ call.ret # 0 /\ call.ret # Panic

\* C18 as stated: a req that returns a nonzero code leaves the table and the
\* allocation cursor as they were before the call.
C18_FailedReqKeepsTable ==
    [][(last'.op = "req" /\ Failed(last')) =>
          /\ responses' = responses
          /\ current_handle' = current_handle]_vars

\* C19 as stated: a body_read that returns a nonzero code leaves the body
\* cursor of every handle as it was.
C19_FailedReadKeepsCursor ==
    [][(last'.op = "body_read" /\ Failed(last')) =>
          /\ DOMAIN responses' = DOMAIN responses
          /\ \A h \in DOMAIN responses : responses'[h].body.pos = responses[h].body.pos]_vars

\* C20 as stated: a host call that returns a nonzero code writes nothing into
\* guest memory.
C20_FailedCallWritesNothing ==
    [][Failed(last') => mem' = mem]_vars

====
